---- MODULE Spec2Model ----
(***************************************************************************)
(* The screenshot endpoint: RequestQueue (admission control) and the POST  *)
(* handler it runs (src/unnamed/part_004).                                 *)
(*                                                                         *)
(* One step of the model is one macrotask of the JavaScript event loop: an *)
(* incoming request, the completion of one awaited I/O operation, or the   *)
(* deadline timer's callback.  The code that runs between two awaited I/O  *)
(* operations, and every promise continuation that is already resolved     *)
(* (microtasks), runs to completion inside the step.                       *)
(***************************************************************************)
EXTENDS Integers, Sequences, FiniteSets, TLC

\* Number of requests the environment sends.
NumTasks == 3

\* RequestQueue's constructor parameter maxConcurrent (default 5).
MaxConcurrent == 2

\* The click retry loop: for (let attempt = 1; attempt <= 3; attempt++).
MaxAttempts == 3

VARIABLES
    envOk,            \* process.env holds every required variable
    queue,            \* RequestQueue.queue: the pending tasks, oldest first
    processing,       \* RequestQueue.processing
    currentRequests,  \* RequestQueue.currentRequests
    submitted,        \* number of POST calls so far; the next request is submitted + 1
    startOrder,       \* history: the tasks in the order task() was called
    contended,        \* history: some dispatch found two or more tasks pending
    task,             \* per request: the enqueued closure's position and locals
    issued,           \* number of values uuidv4() has returned (storage keys, below)
    objects,          \* history of the uploads, oldest first (storage keys, below)
    dom               \* the document the isolation script runs on (isolation, below)

vars ==
    <<envOk, queue, processing, currentRequests, submitted, startOrder, contended, task,
      issued, objects, dom>>

Tasks == 1..NumTasks

\* The names of the errors the awaited library calls reject with.  The
\* AbortController's signal is handed to none of them, so none is an AbortError.
ErrorNames == {"Error", "TimeoutError"}

\* The statuses the handler passes to NextResponse.json.
Statuses == {200, 400, 408, 500}

\* The state of a promise: not settled, resolved with a response of the given
\* status, or rejected with an error of the given name.
NoOutcome == [kind |-> "none", value |-> 0, reason |-> "none"]
Resolved(status) == [kind |-> "resolved", value |-> status, reason |-> "none"]
Rejected(err) == [kind |-> "rejected", value |-> 0, reason |-> err]

\* No response yet.
NoBody == [success |-> "undefined", screenshotUrl |-> FALSE, error |-> FALSE]

\* The JSON body the handler passes to NextResponse.json with each status: the
\* value of its success field ("undefined" when the object has none) and
\* whether it has a screenshotUrl and an error field (details is left out).
Body(status) ==
    IF status = 200
    THEN [success |-> "true", screenshotUrl |-> TRUE, error |-> FALSE]
    ELSE [success |-> "undefined", screenshotUrl |-> FALSE, error |-> TRUE]

\* A request that has not been sent yet.
NewTask ==
    [pc |-> "new",          \* where the closure is suspended
     timer |-> "unset",     \* the setTimeout handle: unset, armed, cleared, fired
     expired |-> FALSE,     \* the timer fired before the response was produced
     browser |-> "null",    \* the closure's browser variable: null, open, closed
     closeCalls |-> 0,      \* number of browser.close() calls
     resp |-> 0,            \* status of the response, 0 while there is none
     body |-> NoBody,       \* body of the response
     nourl |-> FALSE,       \* history: the body was read and had no url
     sel |-> FALSE,         \* selector given
     click |-> FALSE,       \* clickSelector given
     clickWait |-> "na",    \* history: the click target was absent, or its wait timed out
     attempt |-> 0,         \* the click loop's attempt, 0 outside the loop
     force |-> FALSE,       \* the force option of the click() call in flight
     clicks |-> 0,          \* history: number of click() calls made so far
     clickSuccess |-> FALSE,\* the clickSuccess variable
     page |-> "orig",       \* the page variable: the original page (orig), the page
                            \* the click opened (new), or another page of the context
                            \* that was there before the click (popup)
     opened |-> FALSE,      \* history: the click opened a page
     settle |-> "na",       \* history: the settle race resolved (ok) or rejected
                            \* (caught); kept until the capture's first call completes
     screenshot |-> "null", \* the screenshot variable: null or set (a Buffer)
     hidden |-> FALSE,      \* the isolation script hid elements, not yet restored
     located |-> "na",      \* outcome of locator.waitFor for selector: na, yes, no
     shot |-> "none",       \* the raw screenshot taken: none, element, full
     pending |-> "none",    \* what the inner finally resumes: none, ret, or an error name
     threw |-> "none",      \* history: the awaited operation whose rejection first sent
                            \* the handler into the capture's catch or the inner finally
     calls |-> <<>>,        \* history: the external operations started, in order
     fn |-> NoOutcome,      \* what fn() settles with, for an fn other than the
                            \* handler's closure (QueueSpec); none for the closure
     promise |-> NoOutcome] \* the promise enqueue returned for this task

\* clearTimeout(timeout): a timer that already fired stays fired.
clearTimeout(tm) == IF tm = "armed" THEN "cleared" ELSE tm

\* The closure returns a response: the promise fn() is resolved.  The closure's
\* locals (and the pages it looked at) are gone; what outlives it is the
\* response, the browser process, the timer and the count of close() calls.
Respond(tr, status) ==
    [NewTask EXCEPT !.pc = "done", !.resp = status, !.body = Body(status),
                    !.promise = Resolved(status), !.fn = tr.fn,
                    !.timer = tr.timer,
                    !.expired = tr.expired, !.browser = tr.browser,
                    !.closeCalls = tr.closeCalls, !.nourl = tr.nourl]

\* An outer catch that throws err again: fn() rejects and enqueue's task calls
\* reject(error), so the closure ends with no response.
OuterCatchRethrow(tr, err) ==
    [Respond([tr EXCEPT !.timer = clearTimeout(@)], 500)
       EXCEPT !.resp = 0, !.body = NoBody, !.promise = Rejected(err)]

\* The outer catch: clearTimeout, then 408 for an AbortError and 500 otherwise.
OuterCatch(tr, err) ==
    Respond([tr EXCEPT !.timer = clearTimeout(@)],
            IF err = "AbortError" THEN 408 ELSE 500)

\* An awaited operation rejected where the handler is suspended (tr.pc).
Threw(tr) == [tr EXCEPT !.threw = IF @ = "none" THEN tr.pc ELSE @]

\* The inner finally: clearTimeout(timeout), then await browser?.close().  The
\* try block's page is not used from here on.
Finally(tr, outcome) ==
    [(IF outcome = "ret" THEN tr ELSE Threw(tr))
       EXCEPT !.timer = clearTimeout(@),
              !.closeCalls = IF tr.browser = "null" THEN @ ELSE @ + 1,
              !.pending = outcome,
              !.page = "orig",
              !.opened = FALSE,
              !.settle = "na",
              !.pc = "closing"]

\* The capture's catch (err): locator.count() is called.
Caught(tr) == [Threw(tr) EXCEPT !.pc = "catchCount"]

\* An external operation is started: launch, goto, click (the interaction, once
\* for all its attempts), screenshot, pngquant, send.
Call(tr, op) == [tr EXCEPT !.calls = Append(@, op)]

\* A handler that does not validate the environment.
PostEnterUnchecked(tr) == [tr EXCEPT !.timer = "armed", !.pc = "json"]

\* A handler that looks at url before it validates the environment.
PostEnterUrlFirst(tr) ==
    LET armed == [tr EXCEPT !.timer = "armed"]
    IN  IF tr.nourl THEN Respond(armed, 400)
        ELSE IF envOk THEN [armed EXCEPT !.pc = "json"] ELSE Respond(armed, 500)

\* The closure up to its first await: the timer is armed, the environment is
\* validated; with a variable missing it returns 500 at once (no clearTimeout).
PostEnter(tr) ==
    LET armed == [tr EXCEPT !.timer = "armed"]
    IN  IF envOk THEN [armed EXCEPT !.pc = "json"] ELSE Respond(armed, 500)

(***************************************************************************)
(* RequestQueue.  The operators take and return the queue's fields and the *)
(* tasks as one record, because enqueue, processNext and a task's          *)
(* completion call one another within one step.                            *)
(***************************************************************************)
World ==
    [queue |-> queue, processing |-> processing, cur |-> currentRequests,
     startOrder |-> startOrder, contended |-> contended, task |-> task]

\* A queue that hands out its newest task (pop) instead of its oldest.
ShiftNewest(q) == [task |-> q[Len(q)], rest |-> SubSeq(q, 1, Len(q) - 1)]

\* A queue whose dispatch takes two tasks off the array and runs the first.
ShiftTwo(q) ==
    [task |-> Head(q), rest |-> IF Len(q) >= 2 THEN Tail(Tail(q)) ELSE Tail(q)]

\* const task = this.queue.shift()
Shift(q) == [task |-> Head(q), rest |-> Tail(q)]

\* A dispatch guard that does not look at the processing flag.
BusyIgnoringFlag(w) == Len(w.queue) = 0 \/ w.cur >= MaxConcurrent

\* processNext's guard: if (this.processing || this.queue.length === 0 ||
\* this.currentRequests >= this.maxConcurrent) return
Busy(w) == w.processing \/ Len(w.queue) = 0 \/ w.cur >= MaxConcurrent

RECURSIVE processNext(_)

\* A queue whose dispatch attaches no .finally callback to task(): the
\* processing flag is never reset.
taskSettledFlagKept(w) == processNext([w EXCEPT !.cur = @ - 1])

\* A task whose finally block does not decrement currentRequests.
taskSettledNoDecrement(w) ==
    LET w2 == processNext(w)
        w3 == [w2 EXCEPT !.processing = FALSE]
    IN  processNext(w3)

\* task()'s finally block, then the .finally callback processNext attached.
taskSettled(w) ==
    LET w1 == [w EXCEPT !.cur = @ - 1]
        w2 == processNext(w1)
        w3 == [w2 EXCEPT !.processing = FALSE]
    IN  processNext(w3)

\* task(): currentRequests++, then fn() up to its first await.
runTask(w, t) ==
    LET tr == PostEnter(w.task[t])
        w1 == [w EXCEPT !.cur = @ + 1, !.task[t] = tr]
    IN  IF tr.pc = "done" THEN taskSettled(w1) ELSE w1

processNext(w) ==
    IF Busy(w)
    THEN w
    ELSE LET s == Shift(w.queue)
         IN  runTask([w EXCEPT !.processing = TRUE,
                               !.queue = s.rest,
                               !.startOrder = Append(@, s.task),
                               !.contended = @ \/ Len(w.queue) >= 2],
                     s.task)

\* A POST that checks the request and answers 400 before it enqueues the rest.
enqueueValidated(w, t) ==
    processNext([w EXCEPT !.queue = Append(@, t),
                          !.task[t] = [Respond(@, 400) EXCEPT !.pc = "queued"]])

\* enqueue(fn): this.queue.push(task); this.processNext()
enqueue(w, t) ==
    processNext([w EXCEPT !.queue = Append(@, t), !.task[t].pc = "queued"])

Apply(w) ==
    /\ queue' = w.queue
    /\ processing' = w.processing
    /\ currentRequests' = w.cur
    /\ startOrder' = w.startOrder
    /\ contended' = w.contended
    /\ task' = w.task
    /\ UNCHANGED <<envOk, issued, objects, dom>>

\* Task t's closure resumes and runs until it is suspended again (tr.pc names
\* the next await) or has returned (tr.pc = "done": the task completes).
Resume(t, tr) ==
    LET w == [World EXCEPT !.task[t] = tr]
    IN  Apply(IF tr.pc = "done" THEN taskSettled(w) ELSE w)

\* A page operation completes: it can succeed only while the browser is open.
PageOk(tr, ok) == ok => tr.browser = "open"

\* No document is looked into.
NoDom == [step |-> "none"]

Init ==
    /\ envOk \in BOOLEAN
    /\ queue = <<>>
    /\ processing = FALSE
    /\ currentRequests = 0
    /\ submitted = 0
    /\ startOrder = <<>>
    /\ contended = FALSE
    /\ task = [t \in Tasks |-> NewTask]
    /\ issued = 0
    /\ objects = <<>>
    /\ dom = NoDom

\* POST(request): requestQueue.enqueue(async () => {...})
Submit(t) ==
    /\ t = submitted + 1
    /\ submitted' = t
    /\ Apply(enqueue(World, t))

\* A deadline callback over one browser variable shared by all requests: it
\* closes every browser that is not null.
TimerFireShared(t) ==
    /\ task[t].timer = "armed"
    /\ task' = [u \in Tasks |->
                  [task[u] EXCEPT
                     !.timer = IF u = t THEN "fired" ELSE @,
                     !.expired = IF u = t THEN task[t].resp = 0 ELSE @,
                     !.closeCalls = IF task[u].browser = "null" THEN @ ELSE @ + 1,
                     !.browser = IF task[u].browser = "null" THEN @ ELSE "closed"]]
    /\ UNCHANGED <<envOk, queue, processing, currentRequests, submitted, startOrder,
                   contended, issued, objects, dom>>

\* The deadline timer's callback: controller.abort(); if (browser) browser.close()
TimerFire(t) ==
    /\ task[t].timer = "armed"
    /\ task' = [task EXCEPT ![t] =
                  [@ EXCEPT !.timer = "fired",
                            !.expired = (task[t].resp = 0),
                            !.closeCalls = IF task[t].browser = "null" THEN @ ELSE @ + 1,
                            !.browser = IF task[t].browser = "null" THEN @ ELSE "closed"]]
    /\ UNCHANGED <<envOk, queue, processing, currentRequests, submitted, startOrder,
                   contended, issued, objects, dom>>

(***************************************************************************)
(* The enqueued closure, one action per awaited operation.  A request's    *)
(* body is fixed when it is sent; the model draws each field where the     *)
(* handler first branches on it, which yields the same runs.               *)
(***************************************************************************)

\* A handler that takes the element branch whether or not selector is given.
ToCaptureAlwaysElement(tr, sel) == [tr EXCEPT !.pc = "elemWait"]

\* if (selector): the element capture, else the full page screenshot.
ToCapture(tr, sel) ==
    IF sel THEN [tr EXCEPT !.sel = TRUE, !.pc = "elemWait"]
           ELSE Call([tr EXCEPT !.pc = "fullShot"], "screenshot")

\* if (clickSelector): the click interaction, else on to the capture.
ToInteract(tr, click, sel) ==
    IF click THEN [tr EXCEPT !.click = TRUE, !.pc = "clickCount"]
             ELSE ToCapture(tr, sel)

\* A retry loop that runs once more than the handler's.
LoopCondOneMore(attempt) == attempt <= MaxAttempts + 1

\* The click loop's condition: attempt <= 3.
LoopCond(attempt) == attempt <= MaxAttempts

\* clickLocator.click({timeout: 5000, force: attempt === 3}) is called.
Click(tr, attempt) ==
    [(IF attempt = 1 THEN Call(tr, "click") ELSE tr)
       EXCEPT !.attempt = attempt, !.force = (attempt = MaxAttempts),
              !.clicks = @ + 1, !.pc = "click"]

\* The loop's head with attempt set: the next click, or the loop is left with
\* clickSuccess false: throw new Error("Failed to click element after 3 attempts").
NextAttempt(tr, attempt) ==
    IF LoopCond(attempt)
    THEN Click(tr, attempt)
    ELSE Finally([tr EXCEPT !.attempt = 0], "Error")

\* The end of the if (elementExists) block: its locals go out of scope.
EndInteract(tr) == [tr EXCEPT !.clicks = 0, !.clickSuccess = FALSE]

\* A handler without "if (!screenshot) throw": it uploads whatever it holds.
ToUploadUnchecked(tr) ==
    Call([tr EXCEPT !.page = "orig", !.opened = FALSE, !.pc = "upload"], "send")

\* The file name (S3Filename, see the storage keys below), "if (!screenshot)
\* throw", then s3Client.send is called.  The page is not used from here on.
ToUpload(tr) ==
    IF tr.screenshot = "null"
    THEN Finally(tr, "Error")
    ELSE Call([tr EXCEPT !.page = "orig", !.opened = FALSE, !.pc = "upload"], "send")

\* A handler that launches the browser without looking at url.
UrlCheckSkipped(tr, url) ==
    Call([tr EXCEPT !.nourl = ~url, !.pc = "launch"], "launch")

\* if (!url) return 400; else chromium.launch() is called.
UrlCheck(tr, url) ==
    IF url
    THEN Call([tr EXCEPT !.pc = "launch"], "launch")
    ELSE Respond([tr EXCEPT !.nourl = TRUE], 400)

\* await request.json(), the url check, then chromium.launch() is called.
JsonDone(t) ==
    /\ task[t].pc = "json"
    /\ UNCHANGED submitted
    /\ \E ok \in BOOLEAN :
         IF ok
         THEN \E url \in BOOLEAN : Resume(t, UrlCheck(task[t], url))
         ELSE \E e \in ErrorNames : Resume(t, OuterCatch(task[t], e))

\* await chromium.launch(), then browser.newPage() is called.
LaunchDone(t) ==
    /\ task[t].pc = "launch"
    /\ UNCHANGED submitted
    /\ \E ok \in BOOLEAN :
         IF ok
         THEN Resume(t, [task[t] EXCEPT !.browser = "open", !.pc = "newPage"])
         ELSE \E e \in ErrorNames : Resume(t, OuterCatch(task[t], e))

\* await browser.newPage(): outside the inner try, so a failure skips the finally.
NewPageDone(t) ==
    /\ task[t].pc = "newPage"
    /\ UNCHANGED submitted
    /\ \E ok \in BOOLEAN :
         /\ PageOk(task[t], ok)
         /\ IF ok
            THEN Resume(t, [task[t] EXCEPT !.pc = "viewport"])
            ELSE \E e \in ErrorNames : Resume(t, OuterCatch(task[t], e))

\* await page.setViewportSize(...), then page.goto is called.
ViewportDone(t) ==
    /\ task[t].pc = "viewport"
    /\ UNCHANGED submitted
    /\ \E ok \in BOOLEAN :
         /\ PageOk(task[t], ok)
         /\ IF ok
            THEN Resume(t, Call([task[t] EXCEPT !.pc = "goto"], "goto"))
            ELSE \E e \in ErrorNames : Resume(t, Finally(task[t], e))

\* A handler that logs a failed navigation and goes on with the page as it is.
GotoFailedIgnored(tr, e) == [Threw(tr) EXCEPT !.pc = "removeConsent"]

\* page.goto rejects (navigation error or timeout): nothing catches it inside
\* the try block, so the inner finally runs.
GotoFailed(tr, e) == Finally(tr, e)

\* await page.goto(url, {timeout: 15000}), then if (waitTimeout > 0).
GotoDone(t) ==
    /\ task[t].pc = "goto"
    /\ UNCHANGED submitted
    /\ \E ok \in BOOLEAN :
         /\ PageOk(task[t], ok)
         /\ IF ok
            THEN \E wait \in BOOLEAN :
                   Resume(t, [task[t] EXCEPT
                                !.pc = IF wait THEN "waitAfterLoad" ELSE "removeConsent"])
            ELSE \E e \in ErrorNames : Resume(t, GotoFailed(task[t], e))

\* await page.waitForTimeout(waitTimeout)
WaitAfterLoadDone(t) ==
    /\ task[t].pc = "waitAfterLoad"
    /\ UNCHANGED submitted
    /\ \E ok \in BOOLEAN :
         /\ PageOk(task[t], ok)
         /\ IF ok
            THEN Resume(t, [task[t] EXCEPT !.pc = "removeConsent"])
            ELSE \E e \in ErrorNames : Resume(t, Finally(task[t], e))

\* await page.evaluate(remove #onetrust-consent-sdk), then if (clickSelector).
RemoveConsentDone(t) ==
    /\ task[t].pc = "removeConsent"
    /\ UNCHANGED submitted
    /\ \E ok \in BOOLEAN :
         /\ PageOk(task[t], ok)
         /\ IF ok
            THEN \E click \in BOOLEAN, sel \in BOOLEAN :
                   Resume(t, ToInteract(task[t], click, sel))
            ELSE \E e \in ErrorNames : Resume(t, Finally(task[t], e))

\* await clickLocator.count(): with no such element the interaction is skipped.
ClickCountDone(t) ==
    /\ task[t].pc = "clickCount"
    /\ UNCHANGED submitted
    /\ \E ok \in BOOLEAN :
         /\ PageOk(task[t], ok)
         /\ IF ok
            THEN \E elementExists \in BOOLEAN, sel \in BOOLEAN :
                   Resume(t, IF elementExists
                             THEN [task[t] EXCEPT !.pc = "clickWaitVisible"]
                             ELSE ToCapture([task[t] EXCEPT !.clickWait = "absent"], sel))
            ELSE \E e \in ErrorNames : Resume(t, Finally(task[t], e))

\* The rejection of clickLocator.waitFor: on a live page with a TimeoutError the
\* element did not become visible within the wait.
WaitOutcome(tr, e) ==
    IF tr.browser = "open" /\ e = "TimeoutError" THEN "timeout" ELSE tr.clickWait

\* await clickLocator.waitFor({state: "visible", timeout: 10000}): a timeout throws.
ClickWaitVisibleDone(t) ==
    /\ task[t].pc = "clickWaitVisible"
    /\ UNCHANGED submitted
    /\ \E ok \in BOOLEAN :
         /\ PageOk(task[t], ok)
         /\ IF ok
            THEN Resume(t, [task[t] EXCEPT !.pc = "storeInitial"])
            ELSE \E e \in ErrorNames :
                   Resume(t, Finally([task[t] EXCEPT !.clickWait = WaitOutcome(task[t], e)], e))

\* await page.evaluate(store initialUrl, initialBody), then the first click attempt.
StoreInitialDone(t) ==
    /\ task[t].pc = "storeInitial"
    /\ UNCHANGED submitted
    /\ \E ok \in BOOLEAN :
         /\ PageOk(task[t], ok)
         /\ IF ok
            THEN Resume(t, NextAttempt(task[t], 1))
            ELSE \E e \in ErrorNames : Resume(t, Finally(task[t], e))

\* const pages = context.pages(); if (pages.length > 1) page = pages[pages.length - 1].
\* The context holds the original page, a page the site opened by itself before
\* the click (popup), if any, and last the page the click opened, if any.
ResolvePage(tr, opened, popup) ==
    IF opened \/ popup
    THEN [tr EXCEPT !.opened = opened,
                    !.page = IF opened THEN "new" ELSE "popup",
                    !.pc = "newPageLoad"]
    ELSE [tr EXCEPT !.pc = "settle"]

\* await clickLocator.click({timeout: 5000, force: attempt === 3}).  A success
\* breaks the loop and looks at context.pages(); a failure waits and retries,
\* and after the last attempt throws "Failed to click element after 3 attempts".
ClickDone(t) ==
    /\ task[t].pc = "click"
    /\ UNCHANGED submitted
    /\ \E ok \in BOOLEAN :
         /\ PageOk(task[t], ok)
         /\ IF ok
            THEN \E opened \in BOOLEAN, popup \in BOOLEAN :
                   LET clicked == [task[t] EXCEPT !.attempt = 0, !.force = FALSE,
                                                  !.clickSuccess = TRUE]
                   IN  Resume(t, ResolvePage(clicked, opened, popup))
            ELSE LET failed == [task[t] EXCEPT !.force = FALSE]
                 IN  IF task[t].attempt < MaxAttempts
                     THEN Resume(t, [failed EXCEPT !.pc = "retryWait"])
                     ELSE Resume(t, NextAttempt(failed, task[t].attempt + 1))

\* await page.waitForTimeout(1000) in the loop's catch, then the next attempt.
RetryWaitDone(t) ==
    /\ task[t].pc = "retryWait"
    /\ UNCHANGED submitted
    /\ \E ok \in BOOLEAN :
         /\ PageOk(task[t], ok)
         /\ IF ok
            THEN Resume(t, NextAttempt(task[t], task[t].attempt + 1))
            ELSE \E e \in ErrorNames : Resume(t, Finally(task[t], e))

\* await page.waitForLoadState("domcontentloaded") on the newly opened page.
NewPageLoadDone(t) ==
    /\ task[t].pc = "newPageLoad"
    /\ UNCHANGED submitted
    /\ \E ok \in BOOLEAN :
         /\ PageOk(task[t], ok)
         /\ IF ok
            THEN Resume(t, [task[t] EXCEPT !.pc = "settle"])
            ELSE \E e \in ErrorNames : Resume(t, Finally(task[t], e))

\* A settle race without its .catch: a rejection leaves the try block.
SettledUncaught(tr, ok, sel) ==
    IF ok
    THEN ToCapture([EndInteract(tr) EXCEPT !.settle = "ok"], sel)
    ELSE Finally(tr, "TimeoutError")

\* Promise.race([...]).catch(() => log(...)) has settled: resolved, or rejected
\* and caught; the if (elementExists) block ends, then if (selector).
Settled(tr, ok, sel) ==
    ToCapture([EndInteract(tr) EXCEPT !.settle = IF ok THEN "ok" ELSE "caught"], sel)

\* await Promise.race([networkidle, url changed, body changed]).catch(...): the
\* race takes the outcome of the promise that settles first.
SettleDone(t) ==
    /\ task[t].pc = "settle"
    /\ UNCHANGED submitted
    /\ \E ok \in BOOLEAN :
         /\ PageOk(task[t], ok)
         /\ \E sel \in BOOLEAN : Resume(t, Settled(task[t], ok, sel))

\* await locator.waitFor({state: "visible", timeout: 10000}) inside the capture's try.
ElemWaitDone(t) ==
    /\ task[t].pc = "elemWait"
    /\ UNCHANGED submitted
    /\ \E ok \in BOOLEAN :
         /\ PageOk(task[t], ok)
         /\ IF ok
            THEN Resume(t, [task[t] EXCEPT !.located = "yes", !.settle = "na",
                                           !.pc = "scroll"])
            ELSE Resume(t, Caught([task[t] EXCEPT !.located = "no", !.settle = "na"]))

\* await locator.scrollIntoViewIfNeeded()
ScrollDone(t) ==
    /\ task[t].pc = "scroll"
    /\ UNCHANGED submitted
    /\ \E ok \in BOOLEAN :
         /\ PageOk(task[t], ok)
         /\ IF ok
            THEN Resume(t, [task[t] EXCEPT !.pc = "isolate"])
            ELSE Resume(t, Caught(task[t]))

\* await page.evaluate(hide script): hides elements unless the target is gone.
IsolateDone(t) ==
    /\ task[t].pc = "isolate"
    /\ UNCHANGED submitted
    /\ \E ok \in BOOLEAN :
         /\ PageOk(task[t], ok)
         /\ IF ok
            THEN \E targetElement \in BOOLEAN :
                   Resume(t, Call([task[t] EXCEPT !.hidden = targetElement,
                                                  !.pc = "elemShot"], "screenshot"))
            ELSE Resume(t, Caught(task[t]))

\* await locator.screenshot(...), then pngquant is started on the raw bytes.
ElemShotDone(t) ==
    /\ task[t].pc = "elemShot"
    /\ UNCHANGED submitted
    /\ \E ok \in BOOLEAN :
         /\ PageOk(task[t], ok)
         /\ IF ok
            THEN Resume(t, Call([task[t] EXCEPT !.shot = "element",
                                                !.pc = "optimizeElem"], "pngquant"))
            ELSE Resume(t, Caught(task[t]))

\* await pngquant (still inside the try), then the restore script is called.
OptimizeElemDone(t) ==
    /\ task[t].pc = "optimizeElem"
    /\ UNCHANGED submitted
    /\ \E ok \in BOOLEAN :
         IF ok
         THEN Resume(t, [task[t] EXCEPT !.screenshot = "set", !.pc = "restore"])
         ELSE Resume(t, Caught(task[t]))

\* await page.evaluate(restore script), the last statement of the try.
RestoreDone(t) ==
    /\ task[t].pc = "restore"
    /\ UNCHANGED submitted
    /\ \E ok \in BOOLEAN :
         /\ PageOk(task[t], ok)
         /\ IF ok
            THEN Resume(t, ToUpload([task[t] EXCEPT !.hidden = FALSE]))
            ELSE Resume(t, Caught(task[t]))

\* The capture's catch: await locator.count().  With the element present the
\* handler only logs and goes on with screenshot as it is; else it throws.
CatchCountDone(t) ==
    /\ task[t].pc = "catchCount"
    /\ UNCHANGED submitted
    /\ \E ok \in BOOLEAN :
         /\ PageOk(task[t], ok)
         /\ IF ok
            THEN \E present \in BOOLEAN :
                   Resume(t, IF present THEN ToUpload(task[t])
                                        ELSE Finally(task[t], "Error"))
            ELSE \E e \in ErrorNames : Resume(t, Finally(task[t], e))

\* await page.screenshot({fullPage: true}), then pngquant is started.
FullShotDone(t) ==
    /\ task[t].pc = "fullShot"
    /\ UNCHANGED submitted
    /\ \E ok \in BOOLEAN :
         /\ PageOk(task[t], ok)
         /\ IF ok
            THEN Resume(t, Call([task[t] EXCEPT !.shot = "full", !.settle = "na",
                                                !.page = "orig", !.opened = FALSE,
                                                !.pc = "optimizeFull"], "pngquant"))
            ELSE \E e \in ErrorNames : Resume(t, Finally(task[t], e))

\* A handler that uploads the raw bytes when pngquant fails.
OptimizeFailedRawUploaded(tr, e) ==
    Call([Threw(tr) EXCEPT !.screenshot = "set", !.pc = "upload"], "send")

\* The pngquant stream emits "error": the promise rejects (stream.on("error",
\* reject)) and, with no catch around the full page capture, the finally runs.
OptimizeFailed(tr, e) == Finally(tr, e)

\* await pngquant on the full page screenshot.
OptimizeFullDone(t) ==
    /\ task[t].pc = "optimizeFull"
    /\ UNCHANGED submitted
    /\ \E ok \in BOOLEAN :
         IF ok
         THEN Resume(t, ToUpload([task[t] EXCEPT !.screenshot = "set"]))
         ELSE \E e \in ErrorNames : Resume(t, OptimizeFailed(task[t], e))

\* await s3Client.send(new PutObjectCommand(...)), then return the success body.
UploadDone(t) ==
    /\ task[t].pc = "upload"
    /\ UNCHANGED submitted
    /\ \E ok \in BOOLEAN :
         IF ok
         THEN Resume(t, Finally(task[t], "ret"))
         ELSE \E e \in ErrorNames : Resume(t, Finally(task[t], e))

\* await browser?.close() in the inner finally, then the return or the throw
\* that entered the finally goes on: the response, or the outer catch.
CloseDone(t) ==
    /\ task[t].pc = "closing"
    /\ UNCHANGED submitted
    /\ LET closed == [task[t] EXCEPT !.browser = "closed"]
       IN  IF task[t].pending = "ret"
           THEN Resume(t, Respond(closed, 200))
           ELSE Resume(t, OuterCatch(closed, task[t].pending))

Next ==
    \/ \E t \in Tasks : Submit(t)
    \/ \E t \in Tasks : TimerFire(t)
    \/ \E t \in Tasks : JsonDone(t)
    \/ \E t \in Tasks : LaunchDone(t)
    \/ \E t \in Tasks : NewPageDone(t)
    \/ \E t \in Tasks : ViewportDone(t)
    \/ \E t \in Tasks : GotoDone(t)
    \/ \E t \in Tasks : WaitAfterLoadDone(t)
    \/ \E t \in Tasks : RemoveConsentDone(t)
    \/ \E t \in Tasks : ClickCountDone(t)
    \/ \E t \in Tasks : ClickWaitVisibleDone(t)
    \/ \E t \in Tasks : StoreInitialDone(t)
    \/ \E t \in Tasks : ClickDone(t)
    \/ \E t \in Tasks : RetryWaitDone(t)
    \/ \E t \in Tasks : NewPageLoadDone(t)
    \/ \E t \in Tasks : SettleDone(t)
    \/ \E t \in Tasks : ElemWaitDone(t)
    \/ \E t \in Tasks : ScrollDone(t)
    \/ \E t \in Tasks : IsolateDone(t)
    \/ \E t \in Tasks : ElemShotDone(t)
    \/ \E t \in Tasks : OptimizeElemDone(t)
    \/ \E t \in Tasks : RestoreDone(t)
    \/ \E t \in Tasks : CatchCountDone(t)
    \/ \E t \in Tasks : FullShotDone(t)
    \/ \E t \in Tasks : OptimizeFullDone(t)
    \/ \E t \in Tasks : UploadDone(t)
    \/ \E t \in Tasks : CloseDone(t)

Spec == Init /\ [][Next]_vars

\* One awaited operation of some executing task completes.
TaskStep ==
    \E t \in Tasks :
      \/ JsonDone(t) \/ LaunchDone(t) \/ NewPageDone(t) \/ ViewportDone(t)
      \/ GotoDone(t) \/ WaitAfterLoadDone(t) \/ RemoveConsentDone(t)
      \/ ClickCountDone(t) \/ ClickWaitVisibleDone(t) \/ StoreInitialDone(t)
      \/ ClickDone(t) \/ RetryWaitDone(t) \/ NewPageLoadDone(t) \/ SettleDone(t)
      \/ ElemWaitDone(t) \/ ScrollDone(t) \/ IsolateDone(t) \/ ElemShotDone(t)
      \/ OptimizeElemDone(t) \/ RestoreDone(t) \/ CatchCountDone(t)
      \/ FullShotDone(t) \/ OptimizeFullDone(t) \/ UploadDone(t) \/ CloseDone(t)

\* Every awaited operation completes (it resolves or rejects), and the event
\* loop runs its continuation: a started task eventually finishes.
FairSpec == Spec /\ WF_vars(TaskStep)

(***************************************************************************)
(* Storage keys.  The file name of the upload is a function of the         *)
(* request's filename and of the uuid generator; KeySpec runs the handler's *)
(* upload part (from "Generate a unique filename" to the response) for a   *)
(* sequence of requests, with the values written out.  Under Spec the      *)
(* generator and the upload history stay as they start.                    *)
(***************************************************************************)

\* Number of requests that reach the upload.
MaxUploads == 4

\* The file names a caller gives; NoFilename is a body without filename.
Filenames == {"shot", "page"}
NoFilename == ""

\* `https://${bucketName}.s3.${process.env.AWS_REGION}.amazonaws.com/`
UrlPrefix == <<"https://", "bucketName", ".s3.", "AWS_REGION", ".amazonaws.com/">>

\* uuidv4() when n values were returned before: a value none of them equals.
uuidv4(n) == n + 1

\* A handler that draws its fallback name once, when the module is loaded.
S3FilenameFixed(filename, id) ==
    IF filename # NoFilename THEN <<filename, ".png">> ELSE <<uuidv4(0), ".png">>

\* const s3Filename = filename ? `${filename}.png` : `${uuidv4()}.png`
S3Filename(filename, id) ==
    IF filename # NoFilename THEN <<filename, ".png">> ELSE <<id, ".png">>

\* const s3Url = `https://.../${s3Filename}`
S3Url(s3Filename) == UrlPrefix \o s3Filename

\* The object key a reader of the URL asks the bucket for: the path.
KeyOfUrl(url) == SubSeq(url, Len(UrlPrefix) + 1, Len(url))

\* One request from its start to the response, with capture and upload
\* succeeding: requestId = uuidv4(), s3Filename, PutObjectCommand({Key:
\* s3Filename, ...}), s3Url, {success: true, screenshotUrl: s3Url}.
Upload(filename) ==
    /\ envOk
    /\ Len(objects) < MaxUploads
    /\ LET requestId == uuidv4(issued)
           s3Filename == S3Filename(filename, uuidv4(issued + 1))
       IN  /\ issued' = IF filename = NoFilename THEN issued + 2 ELSE issued + 1
           /\ objects' = Append(objects, [filename |-> filename,
                                          Key |-> s3Filename,
                                          screenshotUrl |-> S3Url(s3Filename)])
    /\ UNCHANGED <<envOk, queue, processing, currentRequests, submitted, startOrder,
                   contended, task, dom>>

KeyNext == \E filename \in Filenames \cup {NoFilename} : Upload(filename)

KeySpec == Init /\ [][KeyNext]_vars

(***************************************************************************)
(* Element isolation.  The two scripts the handler evaluates in the page   *)
(* around the element screenshot are functions of the document; IsoSpec    *)
(* runs them on every small document and every outcome of                  *)
(* document.querySelector(sel).  The elements of a document are numbered   *)
(* so that a parent comes before its children; element 1 is the root, and  *)
(* parent 0 stands for parentElement === null.  Under Spec dom stays NoDom.*)
(***************************************************************************)

\* Largest number of elements of a document.
MaxNodes == 5

\* The documents of n elements: each element but the root has an earlier parent.
Documents(n) ==
    {p \in [1..n -> 0..n] : p[1] = 0 /\ \A el \in 2..n : p[el] \in 1..(el - 1)}

\* A script that keeps only the target's parent, not the parents above it.
getParentsOne(parent, element) ==
    IF parent[element] = 0 THEN {} ELSE {parent[element]}

\* getParents(element): walk parentElement up to the root.
RECURSIVE getParents(_, _)
getParents(parent, element) ==
    IF parent[element] = 0
    THEN {}
    ELSE {parent[element]} \cup getParents(parent, parent[element])

\* getChildren(element): the TreeWalker over element's subtree, element left out.
RECURSIVE getChildren(_, _)
getChildren(parent, element) ==
    LET below == {el \in DOMAIN parent : parent[el] = element}
    IN  below \cup UNION {getChildren(parent, el) : el \in below}

\* The hide script: return when querySelector found nothing (target 0); else
\* every element but the target, its parents and its children gets
\* style.visibility = "hidden".
HideScript(d) ==
    IF d.target = 0
    THEN d
    ELSE LET parents == getParents(d.parent, d.target)
             children == getChildren(d.parent, d.target)
             others == {el \in DOMAIN d.parent :
                          el # d.target /\ el \notin parents /\ el \notin children}
         IN  [d EXCEPT !.visibility = [el \in DOMAIN d.parent |->
                                         IF el \in others THEN "hidden" ELSE @[el]],
                       !.writes = @ \cup {<<el, "visibility", "hidden">> : el \in others}]

\* The restore script: every element gets style.visibility = "visible".
RestoreScript(d) ==
    [d EXCEPT !.visibility = [el \in DOMAIN d.parent |-> "visible"],
              !.writes = @ \cup {<<el, "visibility", "visible">> : el \in DOMAIN d.parent}]

\* The element was located; the document is as the site made it (no inline
\* visibility), and querySelector will find one of its elements or nothing.
IsoInit ==
    /\ envOk = TRUE
    /\ queue = <<>>
    /\ processing = FALSE
    /\ currentRequests = 0
    /\ submitted = 0
    /\ startOrder = <<>>
    /\ contended = FALSE
    /\ task = [t \in Tasks |-> NewTask]
    /\ issued = 0
    /\ objects = <<>>
    /\ \E n \in 1..MaxNodes :
         \E p \in Documents(n), target \in 0..n :
           dom = [step |-> "located", parent |-> p, target |-> target,
                  visibility |-> [el \in 1..n |-> ""], writes |-> {}]

\* await page.evaluate(hide script, selector)
IsoHide ==
    /\ dom.step = "located"
    /\ dom' = [HideScript(dom) EXCEPT !.step = "isolated"]
    /\ UNCHANGED <<envOk, queue, processing, currentRequests, submitted, startOrder,
                   contended, task, issued, objects>>

\* await page.evaluate(restore script), after the screenshot and pngquant.
IsoRestore ==
    /\ dom.step = "isolated"
    /\ dom' = [RestoreScript(dom) EXCEPT !.step = "restored"]
    /\ UNCHANGED <<envOk, queue, processing, currentRequests, submitted, startOrder,
                   contended, task, issued, objects>>

IsoNext == IsoHide \/ IsoRestore

IsoSpec == IsoInit /\ [][IsoNext]_vars

(***************************************************************************)
(* RequestQueue on its own.  enqueue<T>(fn) takes any fn: () => Promise<T>;*)
(* here fn is a function fixed by the caller that, once called, stays      *)
(* suspended until it settles with the outcome it is given: it resolves    *)
(* with a result or rejects with an error.  With the environment           *)
(* incomplete, fn is the handler's closure, which resolves with 500        *)
(* without being suspended.                                                *)
(***************************************************************************)

\* The outcomes an fn may settle with.
FnOutcomes ==
    {Resolved(status) : status \in Statuses} \cup {Rejected(err) : err \in ErrorNames}

\* A task whose catch block resolves the promise with a 500 result.
taskOutcomeSwallowed(tr) ==
    Respond(tr, IF tr.fn.kind = "resolved" THEN tr.fn.value ELSE 500)

\* task(): const result = await fn(); resolve(result), or catch (error):
\* reject(error).  (Its finally block is taskSettled.)
taskOutcome(tr) ==
    IF tr.fn.kind = "resolved"
    THEN Respond(tr, tr.fn.value)
    ELSE [Respond(tr, 500) EXCEPT !.resp = 0, !.body = NoBody, !.promise = tr.fn]

QueueInit == Init

\* enqueue(fn), for an fn that will settle with outcome.
EnqueueFn(t) ==
    /\ t = submitted + 1
    /\ submitted' = t
    /\ \E outcome \in IF envOk THEN FnOutcomes ELSE {Resolved(500)} :
         Apply(enqueue([World EXCEPT !.task[t].fn = outcome], t))

\* fn() settles and task() resumes after its await.
FnSettles(t) ==
    /\ task[t].pc = "json"
    /\ UNCHANGED submitted
    /\ Resume(t, taskOutcome(task[t]))

QueueNext ==
    \/ \E t \in Tasks : EnqueueFn(t)
    \/ \E t \in Tasks : FnSettles(t)

QueueSpec == QueueInit /\ [][QueueNext]_vars

(***************************************************************************)
(* The two validations of the handler, for requests whose body is known    *)
(* from the start: nourl is set when the request is sent.                  *)
(***************************************************************************)

\* POST(request) with a body that has a url, or none.
Post(t) ==
    /\ t = submitted + 1
    /\ submitted' = t
    /\ \E url \in BOOLEAN :
         Apply(enqueue([World EXCEPT !.task[t].nourl = ~url], t))

\* await request.json() yields the body that was sent (or rejects), then the
\* url check.
ReadBody(t) ==
    /\ task[t].pc = "json"
    /\ UNCHANGED submitted
    /\ \E ok \in BOOLEAN :
         IF ok
         THEN Resume(t, UrlCheck(task[t], ~task[t].nourl))
         ELSE \E e \in ErrorNames : Resume(t, OuterCatch(task[t], e))

ValidationNext ==
    \/ \E t \in Tasks : Post(t)
    \/ \E t \in Tasks : ReadBody(t)
    \/ \E t \in Tasks : LaunchDone(t)

ValidationSpec == Init /\ [][ValidationNext]_vars

(***************************************************************************)
(* Properties.                                                             *)
(***************************************************************************)

\* The tasks whose closure has been called and has not returned yet.
Executing == {t \in Tasks : task[t].pc \notin {"new", "queued", "done"}}

\* The browsers that were launched and are not closed.
OpenSessions == {t \in Tasks : task[t].browser = "open"}

\* C1: the number of browser sessions that are open (launched and not yet
\* closed) never exceeds maxConcurrent.
C1_OpenSessionsBounded == Cardinality(OpenSessions) <= MaxConcurrent

\* C2: between steps of the event loop (no dispatch in progress) the pending
\* queue is never non-empty while the active count is below maxConcurrent.
C2_NoFreeSlotWhilePending ==
    queue # <<>> => currentRequests >= MaxConcurrent

\* C3: a task suspended on browser I/O does not keep another task from being
\* dispatched: a request that arrives while one task executes, nothing is pending
\* and a slot is free starts at once, so that two tasks execute at the same time.
C3_SecondTaskRunsBesideFirst ==
    [][(/\ envOk
        /\ Cardinality(Executing) = 1
        /\ queue = <<>>
        /\ currentRequests < MaxConcurrent
        /\ submitted' = submitted + 1)
       => Cardinality(Executing') = 2]_vars

\* C4: tasks begin execution in the order they were submitted: a task never
\* starts before a task submitted earlier has started.  (Requests are numbered
\* in submission order.)
C4_DispatchInSubmissionOrder ==
    /\ \A i, j \in 1..Len(startOrder) :
         i < j => startOrder[i] < startOrder[j]
    /\ \A j \in 1..Len(startOrder) :
         \A a \in 1..(startOrder[j] - 1) :
           \E i \in 1..j : startOrder[i] = a

\* C4's case: a dispatch found two or more tasks pending, and by now every
\* task, the ones it left behind included, has started.
C4_Witness ==
    contended /\ Len(startOrder) = NumTasks

\* C5: when a task that launched a browser has completed, close() has been
\* invoked on that browser exactly once.
C5_ClosedExactlyOnce ==
    \A t \in Tasks :
      (task[t].resp # 0 /\ task[t].browser # "null") => task[t].closeCalls = 1

\* C6: when a task's result resolves the submission, the browser it launched
\* is closed.
C6_ClosedBeforeResult ==
    \A t \in Tasks : task[t].resp # 0 => task[t].browser # "open"

\* C7: a task that was still executing when its deadline timer fired is
\* force-terminated: its submission never resolves with a success result.
C7_DeadlineForcesFailure ==
    \A t \in Tasks : (task[t].expired /\ task[t].resp # 0) => task[t].resp # 200

\* C8: when the deadline timer fired before the response was produced, the
\* response has status 408.
C8_DeadlineYields408 ==
    \A t \in Tasks : (task[t].expired /\ task[t].resp # 0) => task[t].resp = 408

\* C9: when a task's response is produced, its deadline timer is no longer armed.
C9_TimerDisarmedAtResponse ==
    \A t \in Tasks : task[t].resp # 0 => task[t].timer # "armed"

\* C10: when selector is given and the element is not located within its wait,
\* the task takes a full page screenshot and leaves the capture with the
\* success response (not with an error).
C10_FallbackToFullPage ==
    \A t \in Tasks :
      (task[t].pc = "closing" /\ task[t].sel /\ task[t].located = "no")
        => (task[t].shot = "full" /\ task[t].pending = "ret")

\* C11: once the capture step has finished, with a screenshot or with an error,
\* no element of the page is left hidden by the isolation script: the restore
\* has run before the handler does anything more on the page (the catch's
\* locator.count(), the upload) and before the task ends.
C11_RestoredAfterCapture ==
    \A t \in Tasks :
      task[t].pc \in {"catchCount", "upload", "closing"} => ~task[t].hidden

\* The number of times operation op was started by task t.
Count(t, op) == Cardinality({i \in 1..Len(task[t].calls) : task[t].calls[i] = op})

\* C12: the click is attempted at most 3 times and no more after the first
\* success; attempts 1 and 2 are normal clicks and attempt 3 is forced; when all
\* three fail the task fails with the click error, having taken no screenshot
\* and uploaded nothing.
C12_ClickRetry ==
    \A t \in Tasks :
      /\ task[t].clicks <= 3
      /\ task[t].pc = "click" => (task[t].force <=> task[t].clicks = 3)
      /\ task[t].clickSuccess => task[t].pc \notin {"click", "retryWait"}
      /\ (task[t].clicks = 3 /\ ~task[t].clickSuccess /\ task[t].pc # "click")
           => /\ task[t].pc = "closing"
              /\ task[t].pending = "Error"
              /\ Count(t, "screenshot") = 0
              /\ Count(t, "send") = 0

\* C12's case: the third, forced click has failed too.
C12_Witness ==
    \E t \in Tasks :
      task[t].pc = "closing" /\ task[t].clicks = 3 /\ ~task[t].clickSuccess

\* C13: when clickSelector is given and its element does not show up within the
\* wait (it is absent from the DOM, or present but never visible), the
\* interaction is a no-op: the handler goes on to the capture, on the original
\* page, and the task does not fail.
C13_UnresolvedClickIsNoOp ==
    [][\A t \in Tasks :
         (task[t].clickWait = "na" /\ task'[t].clickWait \in {"absent", "timeout"})
           => (task'[t].pc \in {"elemWait", "fullShot"} /\ task'[t].page = "orig")]_vars

\* Task t starts operation op in this step.
Starts(t, op) ==
    /\ Len(task'[t].calls) = Len(task[t].calls) + 1
    /\ task'[t].calls[Len(task'[t].calls)] = op

\* C14: the storage put is invoked at most once per task and only after a
\* screenshot was captured and then optimized; a task that failed before that
\* point, by deadline expiry included, never invokes it.
C14_PutOnlyAfterOptimize ==
    [][\A t \in Tasks :
         Starts(t, "send")
           => /\ Count(t, "send") = 0
              /\ task'[t].shot # "none"
              /\ task'[t].screenshot = "set"
              /\ Count(t, "screenshot") >= 1
              /\ Count(t, "pngquant") >= 1
              /\ ~task[t].expired]_vars

C16_MissingConfigYields500 ==
    ~envOk =>
      \A t \in Tasks :
        /\ task[t].resp \in {0, 500}
        /\ task[t].pc = "done" <=> task[t].resp = 500
        /\ t \notin Executing
        /\ task[t].calls = <<>>
        /\ task[t].browser = "null"
        /\ task[t].closeCalls = 0

\* C16's case: a request was answered while the configuration was incomplete.
C16_Witness ==
    ~envOk /\ \E t \in Tasks : task[t].resp # 0

\* C17: the key of an upload is the request's filename followed by ".png" when
\* a filename is given, and else a value of the uuid generator followed by
\* ".png"; two requests without filename get different keys; and the key
\* handed to the storage is the key in the URL of the response.
C17_UploadKey ==
    /\ \A i \in 1..Len(objects) :
         LET o == objects[i]
         IN  /\ o.filename # NoFilename => o.Key = <<o.filename, ".png">>
             /\ o.filename = NoFilename
                  => (Len(o.Key) = 2 /\ o.Key[1] \in 1..issued /\ o.Key[2] = ".png")
             /\ KeyOfUrl(o.screenshotUrl) = o.Key
    /\ \A i, j \in 1..Len(objects) :
         (i # j /\ objects[i].filename = NoFilename /\ objects[j].filename = NoFilename)
           => objects[i].Key # objects[j].Key

\* C17's case: a request with a filename and two without have uploaded.
C17_Witness ==
    /\ \E i \in 1..Len(objects) : objects[i].filename # NoFilename
    /\ \E i, j \in 1..Len(objects) :
         i # j /\ objects[i].filename = NoFilename /\ objects[j].filename = NoFilename

\* C18: provided every started task eventually finishes, every submitted task is
\* eventually dispatched and its submission resolved: no pending task stays in
\* the queue forever, also when an earlier task failed.  (A resolved submission
\* stays resolved, so it is enough that again and again every task submitted so
\* far has been dispatched and resolved.)
C18_EverySubmittedTaskResolves ==
    []<>(\A t \in Tasks :
           task[t].pc # "new"
             => (task[t].resp # 0 /\ \E i \in 1..Len(startOrder) : startOrder[i] = t))

\* C18's case: the first task failed while others were pending behind it, and
\* every submission has been resolved.
C18_Witness ==
    /\ contended
    /\ task[1].resp = 500
    /\ \A t \in Tasks : task[t].resp # 0

\* C19: every response has either the success shape (success is true and a
\* screenshotUrl is present, no error) or the failure shape (success is false
\* and an error is present, no screenshotUrl).
C19_ResponseShape ==
    \A t \in Tasks :
      task[t].resp # 0
        => \/ /\ task[t].body.success = "true"
              /\ task[t].body.screenshotUrl
              /\ ~task[t].body.error
           \/ /\ task[t].body.success = "false"
              /\ task[t].body.error
              /\ ~task[t].body.screenshotUrl

\* The operations in the order of the spec's phases: session, navigate, click
\* interaction, capture, optimize, upload.
PhaseOrder == <<"launch", "goto", "click", "screenshot", "pngquant", "send">>

Rank(op) == CHOOSE i \in 1..Len(PhaseOrder) : PhaseOrder[i] = op

\* C20: a task's phases occur only in the order navigate, click interaction
\* (only when clickSelector is given), capture, optimize, upload, and none is
\* repeated; a task that ends with success has skipped none of them; and a task
\* has ended exactly when it has its one result, success or failure.
C20_PhaseOrder ==
    \A t \in Tasks :
      /\ \A i, j \in 1..Len(task[t].calls) :
           i < j => Rank(task[t].calls[i]) < Rank(task[t].calls[j])
      /\ Count(t, "click") > 0 => task[t].click
      /\ (task[t].pc = "closing" /\ task[t].pending = "ret")
           => \A op \in {"launch", "goto", "screenshot", "pngquant", "send"} :
                Count(t, op) = 1
      /\ task[t].pc = "done" <=> task[t].resp # 0
      /\ task[t].resp \in {0, 200, 400, 408, 500}
      /\ task[t].resp # 0 => (task[t].body.screenshotUrl <=> task[t].resp = 200)

\* C20's case: a task with a click interaction is about to end with success.
C20_Witness ==
    \E t \in Tasks :
      task[t].pc = "closing" /\ task[t].pending = "ret" /\ Count(t, "click") = 1

\* Element a is above element el: a is reached from el by one or more
\* parent links.
RECURSIVE Above(_, _, _)
Above(parent, a, el) ==
    /\ parent[el] # 0
    /\ (parent[el] = a \/ Above(parent, a, parent[el]))

\* The elements isolation must leave alone: T, its ancestors, its descendants.
Kept(parent, T) ==
    {el \in DOMAIN parent : el = T \/ Above(parent, el, T) \/ Above(parent, T, el)}

\* C21: for every document and every target T in it, the isolation sets to
\* hidden exactly the elements that are not T, not an ancestor of T and not a
\* descendant of T; T, its ancestors and its descendants are left untouched;
\* and it writes only visibility: hidden, never display.
C21_HideSetExact ==
    (dom.step = "isolated" /\ dom.target # 0)
      => LET keep == Kept(dom.parent, dom.target)
         IN  /\ dom.writes = {<<el, "visibility", "hidden">> :
                                el \in (DOMAIN dom.parent) \ keep}
             /\ \A el \in keep : dom.visibility[el] = ""
             /\ \A el \in (DOMAIN dom.parent) \ keep : dom.visibility[el] = "hidden"

\* C21's case: the target has an ancestor above its parent, a descendant, and
\* the document has elements beside them, which were hidden.
C21_Witness ==
    /\ dom.step = "isolated"
    /\ dom.target # 0
    /\ \E el \in DOMAIN dom.parent : dom.visibility[el] = "hidden"
    /\ \E el \in DOMAIN dom.parent : dom.parent[el] = dom.target
    /\ dom.parent[dom.target] # 0
    /\ dom.parent[dom.parent[dom.target]] # 0

\* C22: when the isolation script finds the target gone (it hides nothing), the
\* capture falls back to a full page screenshot: the handler's next step is the
\* full page screenshot, not the element's.
C22_UnresolvedTargetFallsBack ==
    [][\A t \in Tasks :
         (/\ task[t].pc = "isolate"
          /\ task'[t].pc \notin {"isolate", "catchCount"}
          /\ ~task'[t].hidden)
           => task'[t].pc = "fullShot"]_vars

\* C23: when selector is given and the element was located, and scrolling it
\* into view, the isolation or the element screenshot then raises, the task
\* takes a full page screenshot instead and ends with the success response.
C23_CaptureStepFallsBack ==
    \A t \in Tasks :
      (/\ task[t].pc = "closing"
       /\ task[t].sel
       /\ task[t].located = "yes"
       /\ task[t].threw \in {"scroll", "isolate", "elemShot"})
        => (task[t].shot = "full" /\ task[t].pending = "ret")

\* The handler is suspended in a capture step on its page variable.
CaptureSteps ==
    {"elemWait", "scroll", "isolate", "elemShot", "restore", "catchCount", "fullShot"}

\* C24: every capture step works on the page the click opened when it opened
\* one, and on the original page when the click opened none or there was no click.
C24_CaptureTargetsResolvedPage ==
    \A t \in Tasks :
      task[t].pc \in CaptureSteps
        => /\ task[t].opened => task[t].page = "new"
           /\ ~task[t].opened => task[t].page = "orig"

\* C25: the settling wait after the click never fails the task: whether the
\* race resolves or the first of its promises to settle times out, the handler
\* goes on to the capture.
C25_SettleNeverFails ==
    [][\A t \in Tasks :
         (task[t].pc = "settle" /\ task'[t].pc # "settle")
           => /\ task'[t].pc \in {"elemWait", "fullShot"}
              /\ task'[t].settle \in {"ok", "caught"}
              /\ task'[t].pending = "none"]_vars

\* C25's case: the race rejected and the capture has begun.
C25_Witness ==
    \E t \in Tasks :
      task[t].settle = "caught" /\ task[t].pc \in {"elemWait", "fullShot"}

\* C26: when the navigation to url fails or times out the task fails at once:
\* no click, capture, optimization or upload is started, close() is called on
\* the browser, and the response is a failure with the browser closed.
C26_NavigationFailureFailsTask ==
    [][\A t \in Tasks :
         /\ task'[t].threw = "goto"
              => /\ task'[t].pc = "closing"
                 /\ task'[t].pending \in ErrorNames
                 /\ task'[t].calls = <<"launch", "goto">>
                 /\ task'[t].closeCalls >= 1
         /\ (task[t].threw = "goto" /\ task'[t].pc # "closing")
              => /\ task'[t].pc = "done"
                 /\ task'[t].resp = 500
                 /\ task'[t].body.error /\ ~task'[t].body.screenshotUrl
                 /\ task'[t].browser = "closed"]_vars

\* C26's case: page.goto rejected and the task is in its finally.
C26_Witness ==
    \E t \in Tasks : task[t].threw = "goto" /\ task[t].pc = "closing"

\* The steps at which pngquant is awaited.
OptimizeSteps == {"optimizeElem", "optimizeFull"}

\* C27: pngquant is invoked at most once per task; when it fails it is not
\* invoked again, no second screenshot is taken, nothing is uploaded and the
\* task answers 500.
C27_OptimizerFailureFailsTask ==
    [][\A t \in Tasks :
         /\ Count(t, "pngquant")' <= 1
         /\ task'[t].threw \in OptimizeSteps
              => /\ task'[t].pc \in {"catchCount", "closing"}
                 /\ Count(t, "pngquant")' = 1
                 /\ Count(t, "screenshot")' = 1
                 /\ Count(t, "send")' = 0
                 /\ task'[t].screenshot = "null"
         /\ (task[t].threw \in OptimizeSteps /\ task'[t].threw \notin OptimizeSteps)
              => /\ task'[t].pc = "done"
                 /\ task'[t].resp = 500
                 /\ task'[t].body.error /\ ~task'[t].body.screenshotUrl]_vars

\* C27's case: pngquant rejected and the task is in its finally, having
\* taken one screenshot.
C27_Witness ==
    \E t \in Tasks :
      /\ task[t].threw \in OptimizeSteps
      /\ task[t].pc = "closing"
      /\ Count(t, "screenshot") = 1

\* C28: whenever the closure ends, its promise is resolved with a response and
\* not rejected; when it ends because an awaited call threw out of the try
\* block (launch, navigation, click, capture, optimization, upload, close), the
\* response is a failure: status 408 or 500 and a body with an error field.
C28_ExceptionsBecomeResponses ==
    [][\A t \in Tasks :
         (task[t].pc # "done" /\ task'[t].pc = "done")
           => /\ task'[t].resp \in Statuses
              /\ task'[t].body = Body(task'[t].resp)
              /\ task[t].pending \in ErrorNames
                   => /\ task'[t].resp \in {408, 500}
                      /\ task'[t].body.error
                      /\ ~task'[t].body.screenshotUrl]_vars

\* C28's case: a task whose awaited call threw after the browser was launched
\* has answered 500.
C28_Witness ==
    /\ envOk
    /\ \E t \in Tasks :
         task[t].pc = "done" /\ task[t].resp = 500 /\ task[t].closeCalls >= 1

\* The number of times task t occurs in the sequence q.
Occurrences(q, t) == Cardinality({i \in 1..Len(q) : q[i] = t})

\* C29: however submissions and completions interleave, a submitted task is
\* either pending (once in the queue, not started) or has been taken off the
\* queue and started exactly once; a task not yet submitted is in neither.
C29_StartedExactlyOnce ==
    \A t \in Tasks :
      /\ task[t].pc = "new"
           => Occurrences(queue, t) = 0 /\ Occurrences(startOrder, t) = 0
      /\ task[t].pc = "queued"
           => Occurrences(queue, t) = 1 /\ Occurrences(startOrder, t) = 0
      /\ task[t].pc \notin {"new", "queued"}
           => Occurrences(queue, t) = 0 /\ Occurrences(startOrder, t) = 1

\* C29's case: one task has completed, the next was started by that
\* completion and is running, and a third is still pending.
C29_Witness ==
    \E t1, t2, t3 \in Tasks :
      /\ task[t1].pc = "done"
      /\ task[t2].pc \notin {"new", "queued", "done"}
      /\ task[t3].pc = "queued"
      /\ startOrder = <<t1, t2>>
      /\ queue = <<t3>>

\* The steps of the element branch of if (selector).
ElementSteps ==
    {"elemWait", "scroll", "isolate", "elemShot", "optimizeElem", "restore", "catchCount"}

\* C30: a task whose request has no selector never enters the element branch:
\* it runs no hide script and hides no element, takes no element screenshot,
\* and once it has reached the capture it has called page.screenshot exactly
\* once, full page, on the page the handler resolved.
C30_NoSelectorFullPageOnly ==
    \A t \in Tasks :
      ~task[t].sel
        => /\ task[t].pc \notin ElementSteps
           /\ ~task[t].hidden
           /\ task[t].located = NewTask.located
           /\ task[t].shot # "element"
           /\ task[t].threw \notin ElementSteps
           /\ Count(t, "screenshot") <= 1
           /\ (task[t].pc \in {"fullShot", "optimizeFull", "upload"} \/ task[t].pending = "ret")
                => Count(t, "screenshot") = 1
           /\ (task[t].pc \in {"optimizeFull", "upload"} \/ task[t].pending = "ret")
                => task[t].shot = "full"

\* C30's case: a request without selector has its full page screenshot
\* uploaded and is returning.
C30_Witness ==
    \E t \in Tasks :
      /\ ~task[t].sel
      /\ task[t].pc = "closing"
      /\ task[t].pending = "ret"
      /\ task[t].shot = "full"
      /\ Count(t, "screenshot") = 1

\* C31: currentRequests is the number of tasks that have started and not
\* finished, it is never negative and never above maxConcurrent, and when every
\* submitted task has finished the queue is idle: currentRequests is 0, nothing
\* is pending and the processing flag is false.
C31_ActiveCounter ==
    /\ currentRequests = Cardinality(Executing)
    /\ currentRequests >= 0
    /\ currentRequests <= MaxConcurrent
    /\ (\A t \in Tasks : task[t].pc \in {"new", "done"})
         => /\ currentRequests = 0
            /\ queue = <<>>
            /\ ~processing

\* C31's case: tasks have waited in the queue, every task has been submitted
\* and has finished, and the queue is idle again.
C31_Witness ==
    /\ contended
    /\ \A t \in Tasks : task[t].pc = "done"
    /\ currentRequests = 0 /\ queue = <<>> /\ ~processing

\* C32: the processing flag is set exactly while a dispatched task has not
\* finished; a step that starts with the flag set dispatches a task only after
\* the executing task has finished in that step; so at most one task executes
\* and currentRequests is at most 1, although maxConcurrent is larger.
C32_ProcessingSerializes ==
    [][/\ processing' <=> Executing' # {}
       /\ (processing /\ startOrder' # startOrder)
            => \A t \in Executing : task'[t].pc = "done"
       /\ Cardinality(Executing') <= 1
       /\ currentRequests' <= 1]_vars

\* C32's case: maxConcurrent would admit a second task and one is pending, but
\* the flag is set and one task executes.
C32_Witness ==
    /\ processing
    /\ queue # <<>>
    /\ currentRequests = 1
    /\ currentRequests < MaxConcurrent

\* C33: the promise enqueue returned for a task settles once, in a step in
\* which its own task runs (it was executing, or is started in that step), with
\* the outcome of its own fn: resolved with fn's result or rejected with fn's
\* error.  When fn rejects, currentRequests is decremented
\* all the same, and the oldest pending task, if any, is dispatched.
C33_PromiseSettlesWithOwnOutcome ==
    [][\A t \in Tasks :
         /\ task[t].promise.kind # "none" => task'[t].promise = task[t].promise
         /\ task'[t].promise.kind # "none" => task'[t].promise = task'[t].fn
         /\ (task[t].promise.kind = "none" /\ task'[t].promise.kind # "none")
              => \/ t \in Executing
                 \/ Occurrences(startOrder, t) = 0 /\ Occurrences(startOrder', t) = 1
         /\ (task[t].pc # "done" /\ task'[t].pc = "done")
              => task'[t].promise.kind # "none"
         /\ (task[t].promise.kind = "none" /\ task'[t].promise.kind = "rejected")
              => /\ t \notin Executing'
                 /\ currentRequests' =
                      currentRequests - 1 + (IF queue # <<>> THEN 1 ELSE 0)
                 /\ queue # <<>>
                      => /\ queue' = Tail(queue)
                         /\ startOrder' = Append(startOrder, Head(queue))
                         /\ Head(queue) \in Executing']_vars

\* C33's case: the first fn rejected while two tasks were pending; its promise
\* is rejected, the second task was dispatched and has resolved its own promise.
C33_Witness ==
    /\ contended
    /\ task[1].promise.kind = "rejected"
    /\ task[2].promise.kind = "resolved"
    /\ currentRequests = 1

\* C34: a request is validated only after the queue has dispatched it: while
\* it is pending, without url or with the environment incomplete as well, it has
\* no response and no timer, and every request that has a response (the 400 for
\* a missing url and the 500 for missing configuration included) has been
\* dispatched.
C34_ValidationAfterAdmission ==
    \A t \in Tasks :
      /\ task[t].pc \in {"new", "queued"}
           => /\ task[t].resp = 0
              /\ task[t].body = NoBody
              /\ task[t].promise = NoOutcome
              /\ task[t].timer = "unset"
      /\ task[t].resp # 0 => Occurrences(startOrder, t) = 1

\* C34's case: the third request, sent without url, waited in the queue
\* behind the second, and after its dispatch was answered 400.
C34_Witness ==
    /\ contended
    /\ startOrder = <<1, 2, 3>>
    /\ task[3].nourl
    /\ task[3].resp = 400

\* C35: a task's deadline timer is not set while the task is pending and is
\* armed in the step that starts the task; the step in which it fires calls
\* close() on the browser of its own task, if that task launched one, and
\* leaves every other task's browser as it is.
C35_TimerIsPerTask ==
    [][\A t \in Tasks :
         /\ task'[t].pc \in {"new", "queued"}
              => task'[t].timer = "unset" /\ task'[t].browser = "null"
         /\ (task[t].pc \in {"new", "queued"} /\ task'[t].pc \notin {"new", "queued"})
              => task'[t].timer = "armed"
         /\ (task[t].timer = "armed" /\ task'[t].timer = "fired")
              => /\ task'[t].browser =
                      IF task[t].browser = "null" THEN "null" ELSE "closed"
                 /\ \A u \in Tasks \ {t} : task'[u] = task[u]]_vars

\* C35's case: one task's timer has fired while another task's browser is
\* open, and that browser is still open.
C35_Witness ==
    \E t, u \in Tasks :
      /\ t # u
      /\ task[t].timer = "fired"
      /\ task[u].browser = "open"

\* C36: the environment is validated before the body is looked at: with a
\* required variable missing, a request without url is answered 500 and not
\* 400, and its body is never read.
C36_ConfigCheckedBeforeUrl ==
    \A t \in Tasks :
      (~envOk /\ task[t].nourl)
        => /\ task[t].pc \in {"new", "queued", "done"}
           /\ task[t].resp # 400
           /\ task[t].pc = "done" => (task[t].resp = 500 /\ task[t].body.error)
           /\ task[t].calls = <<>>

\* C36's case: the environment is incomplete, and a request without url has
\* been answered.
C36_Witness ==
    ~envOk /\ \E t \in Tasks : task[t].nourl /\ task[t].resp = 500

====
